---- MODULE Spec2Model ----
\* Verification model of the indicador-preditivo data pipeline:
\*   extrair_dados.py        (paged candle fetch, merge with the persisted raw CSV)
\*   transformar_dados.py    (feature engineering, target column, dropna)
\*   preparar_dados_LSTM.py  (sliding windows, per-window normalisation, split, scaler)
\* Prices and volumes are integers; every quotient the code computes in floating
\* point is kept as an exact fraction, so rounding is outside the model.
EXTENDS Integers, Sequences, FiniteSets, TLC

VARIABLES
    relogio,        \* wall clock of the candle source and of time.time(), in seconds
    mercado,        \* payloads of the bars the source has closed, oldest first
    pc,             \* position of the running stage
    inicio,         \* int(time.time()) captured when buscar_candles starts
    agora,          \* reference time of the next page request
    total_candles,  \* candles still to request
    todos_candles,  \* pages accumulated so far, in arrival order
    df,             \* frame returned by buscar_candles
    antigo,         \* rows read from the raw CSV before the merge
    csv,            \* the raw CSV: [existe, linhas]
    execucoes,      \* runs of extrair_dados started so far
    pedidos,        \* page requests of the current run: [qtd, ref, candles], in order
    transformed,    \* the transformed CSV: [existe, linhas]
    seq_len,        \* lookback of the last preparar_dados call
    test_size,      \* test fraction of the last preparar_dados call, <<numerator, denominator>>
    X,              \* windows emitted by criar_sequencias, each with its start index
    y,              \* raw targets of the emitted windows
    descartadas,    \* windows discarded by criar_sequencias
    split_idx,      \* boundary between train and test
    preparado,      \* the prepared artifacts: [existe, X_train, y_train, X_test, y_test, y_scaler]
    par,            \* a second, independent preparar_dados run on its own transformed CSV
    loja            \* the data directories: [hora, gravacoes], every file write in order

varsExtracao == <<relogio, mercado, inicio, agora, total_candles, todos_candles, df, antigo,
                  execucoes, pedidos>>
varsPreparo == <<seq_len, test_size, X, y, descartadas, split_idx, preparado>>
vars == <<varsExtracao, pc, csv, transformed, varsPreparo, par, loja>>

----------------------------------------------------------------------------
\* Bounds of the model and program constants

TIMEFRAME == 300
MaxTicks == 5
MaxExecucoes == 2
TOTAL_CANDLES == 3
max_por_chamada == 2
HoraInicial == 8
MaxSegundos == 2
MaxGravacoes == 3

\* the clock is observed every half bar
Tick == TIMEFRAME \div 2
\* payloads the source may report for a bar
Precos == {1, 2}
Volumes == {1}

Min(a, b) == IF a <= b THEN a ELSE b
Max(a, b) == IF a >= b THEN a ELSE b

----------------------------------------------------------------------------
\* extrair_dados.py: the candle source (api.get_candles)

\* The bar with index k opens at k * TIMEFRAME. Bars 0 .. Len(mercado)-1 are closed,
\* bar Len(mercado) is the one forming at `relogio`; its payload is provisional.
CandleDe(k, provisorio) ==
    IF k < Len(mercado)
    THEN [from |-> k * TIMEFRAME, fechamento |-> mercado[k + 1].fechamento,
          volume |-> mercado[k + 1].volume]
    ELSE [from |-> k * TIMEFRAME, fechamento |-> provisorio.fechamento,
          volume |-> provisorio.volume]

\* Pages the source may answer to get_candles(par, timeframe, qtd, ref): the m most
\* recent bars opened at or before ref, oldest first, for any m up to qtd (the source
\* may answer short or empty).
get_candles(qtd, ref) ==
    LET ultima == Min(ref, relogio) \div TIMEFRAME
        n == IF ultima < 0 THEN 0 ELSE ultima + 1
    IN  { [j \in 1..m |-> CandleDe(ultima - m + j, p)] :
            m \in 0..Min(qtd, n),
            p \in [fechamento : Precos, volume : Volumes] }

----------------------------------------------------------------------------
\* extrair_dados.py: frame operations

RECURSIVE drop_duplicates(_)
\* DataFrame.drop_duplicates(subset=["from"]): the first row of each key is kept
drop_duplicates(s) ==
    IF s = <<>> THEN <<>>
    ELSE LET r == drop_duplicates(SubSeq(s, 1, Len(s) - 1))
             u == s[Len(s)]
         IN  IF \E j \in 1..Len(r) : r[j].from = u.from THEN r ELSE Append(r, u)

RECURSIVE sort_values(_)
\* DataFrame.sort_values("from"): ascending by key
sort_values(s) ==
    IF s = <<>> THEN <<>>
    ELSE LET r == sort_values(SubSeq(s, 1, Len(s) - 1))
             u == s[Len(s)]
             k == Cardinality({j \in 1..Len(r) : r[j].from <= u.from})
         IN  SubSeq(r, 1, k) \o <<u>> \o SubSeq(r, k + 1, Len(r))

\* tail of buscar_candles: the accumulated pages as a frame
Montar(todos) == sort_values(drop_duplicates(todos))

MesclarSemDedup(a, d) == sort_values(a \o d)

\* merge of the persisted rows with the fetched frame
Mesclar(a, d) == sort_values(drop_duplicates(a \o d))

\* reference time of the following page
ProximaRefFrente(candles) == candles[Len(candles)].from + TIMEFRAME

ProximaRefSemRecuo(candles) == candles[1].from

ProximaRef(candles) == candles[1].from - 1

\* candles asked for in one page request
Qtd(total) == Min(max_por_chamada, total)

RestantePorRecebidos(total, qtd, candles) == total - Len(candles)

\* candles still to request after a page was answered
Restante(total, qtd, candles) == total - qtd

RECURSIVE QtdsPedidas(_, _)
\* counts requested by the paging loop of a fetch of `total` candles in pages of at
\* most `maximo`, when no page comes back empty
QtdsPedidas(maximo, total) ==
    IF total > 0
    THEN <<Min(maximo, total)>> \o QtdsPedidas(maximo, total - Min(maximo, total))
    ELSE <<>>

----------------------------------------------------------------------------
\* extrair_dados.py: actions

\* the source's clock advances; a bar that reaches its close gets its final payload
Avancar ==
    /\ relogio < MaxTicks * Tick
    /\ relogio' = relogio + Tick
    /\ IF (relogio + Tick) \div TIMEFRAME > relogio \div TIMEFRAME
       THEN \E p \in [fechamento : Precos, volume : Volumes] : mercado' = Append(mercado, p)
       ELSE mercado' = mercado
    /\ UNCHANGED <<pc, inicio, agora, total_candles, todos_candles, df, antigo, csv, execucoes>>
    /\ UNCHANGED pedidos
    /\ UNCHANGED <<transformed, varsPreparo, par, loja>>

\* extrair_dados up to the first page request
Iniciar ==
    /\ pc \in {"ocioso", "feito", "erro"}
    /\ execucoes < MaxExecucoes
    /\ execucoes' = execucoes + 1
    /\ pc' = "paginando"
    /\ inicio' = relogio
    /\ agora' = relogio
    /\ total_candles' = TOTAL_CANDLES
    /\ todos_candles' = <<>>
    /\ pedidos' = <<>>
    /\ UNCHANGED <<relogio, mercado, df, antigo, csv>>
    /\ UNCHANGED <<transformed, varsPreparo, par, loja>>

\* what follows the paging loop: frame, merge with the CSV, save
Concluir(todos) ==
    IF todos = <<>>
    THEN /\ pc' = "erro"
         /\ UNCHANGED <<df, antigo, csv>>
    ELSE /\ pc' = "feito"
         /\ df' = Montar(todos)
         /\ antigo' = IF csv.existe THEN csv.linhas ELSE <<>>
         /\ csv' = [existe |-> TRUE,
                    linhas |-> IF csv.existe THEN Mesclar(csv.linhas, Montar(todos))
                               ELSE Montar(todos)]

\* one iteration of the paging loop, and the rest of the run when it is the last
PedirPagina ==
    /\ pc = "paginando"
    /\ total_candles > 0
    /\ LET qtd == Qtd(total_candles) IN
       \E candles \in get_candles(qtd, agora) :
          /\ pedidos' = Append(pedidos, [qtd |-> qtd, ref |-> agora, candles |-> candles])
          /\ IF candles = <<>>
             THEN /\ Concluir(todos_candles)
                  /\ UNCHANGED <<agora, total_candles, todos_candles>>
             ELSE /\ todos_candles' = todos_candles \o candles
                  /\ agora' = ProximaRef(candles)
                  /\ total_candles' = Restante(total_candles, qtd, candles)
                  /\ IF Restante(total_candles, qtd, candles) > 0
                     THEN /\ pc' = "paginando"
                          /\ UNCHANGED <<df, antigo, csv>>
                     ELSE Concluir(todos_candles \o candles)
    /\ UNCHANGED <<relogio, mercado, inicio, execucoes>>
    /\ UNCHANGED <<transformed, varsPreparo, par, loja>>

\* nothing fetched, transformed or prepared yet
ExtracaoParada ==
    /\ relogio = 0
    /\ mercado = <<>>
    /\ inicio = 0
    /\ agora = 0
    /\ total_candles = 0
    /\ todos_candles = <<>>
    /\ df = <<>>
    /\ antigo = <<>>
    /\ execucoes = 0
    /\ pedidos = <<>>

SemArtefato == [existe |-> FALSE, X_train |-> <<>>, y_train |-> <<>>, X_test |-> <<>>,
                y_test |-> <<>>, y_scaler |-> <<>>]

PreparoParado ==
    /\ seq_len = 0
    /\ test_size = <<0, 1>>
    /\ X = <<>>
    /\ y = <<>>
    /\ descartadas = 0
    /\ split_idx = 0
    /\ preparado = SemArtefato

SemPar == [existe |-> FALSE, linhas |-> <<>>, resultado |-> <<>>]

\* no file written yet; the clock of datetime.now() stands at second HoraInicial
LojaVazia == [hora |-> HoraInicial, gravacoes |-> <<>>]

Init ==
    /\ transformed = [existe |-> FALSE, linhas |-> <<>>]
    /\ PreparoParado
    /\ par = SemPar
    /\ loja = LojaVazia
    /\ ExtracaoParada
    /\ pc = "ocioso"
    /\ csv = [existe |-> FALSE, linhas |-> <<>>]

Next == Avancar \/ Iniciar \/ PedirPagina

Spec == Init /\ [][Next]_vars


----------------------------------------------------------------------------
\* Exact arithmetic for the floating-point quotients of the code

RECURSIVE GCD(_, _)
GCD(a, b) == IF b = 0 THEN a ELSE GCD(b, a % b)

Abs(a) == IF a < 0 THEN 0 - a ELSE a
Sinal(a) == IF a < 0 THEN 0 - 1 ELSE IF a > 0 THEN 1 ELSE 0

\* x / 0 is not finite
NaN == <<0, 0>>
\* non-finite cells of a CSV column; finite cells are naturals
inf == 0 - 1
nan == 0 - 2

\* n / d in lowest terms with a positive denominator
Frac(n, d) ==
    IF d = 0 THEN NaN
    ELSE LET g == GCD(Abs(n), Abs(d)) IN <<(Sinal(d) * n) \div g, Abs(d) \div g>>

FracFinita(f) == f[2] # 0
FracIgual(f, g) == FracFinita(f) /\ FracFinita(g) /\ f[1] * g[2] = g[1] * f[2]
FracMenorIgual(f, g) == f[1] * g[2] <= g[1] * f[2]

RECURSIVE Soma(_)
Soma(s) == IF s = <<>> THEN 0 ELSE s[1] + Soma(Tail(s))

Quadrados(s) == [j \in DOMAIN s |-> s[j] * s[j]]
Menor(s) == CHOOSE m \in {s[j] : j \in DOMAIN s} : \A j \in DOMAIN s : m <= s[j]
Maior(s) == CHOOSE m \in {s[j] : j \in DOMAIN s} : \A j \in DOMAIN s : m >= s[j]
Coluna(linhas, c) == [j \in DOMAIN linhas |-> linhas[j][c]]

----------------------------------------------------------------------------
\* sklearn StandardScaler as preparar_dados_LSTM.py uses it. A standardised value z is
\* kept as its sign and the exact fraction z * z, the scale as its square.

handle_zeros_sem_guarda(v) == v

\* StandardScaler replaces a zero scale by 1
handle_zeros_in_scale(v) == IF v[1] = 0 THEN <<1, 1>> ELSE v

\* StandardScaler.fit: mean and (population) scale of one column
fit(col) ==
    LET n == Len(col)
        S == Soma(col)
        Q == Soma(Quadrados(col))
    IN  [mean |-> Frac(S, n),
         scale2 |-> handle_zeros_in_scale(Frac(n * Q - S * S, n * n))]

\* StandardScaler.transform of one value: (x - mean) / scale
transform(x, sc) ==
    LET num == x * sc.mean[2] - sc.mean[1]
        q == Frac(num * num * sc.scale2[2], sc.mean[2] * sc.mean[2] * sc.scale2[1])
    IN  [sinal |-> IF FracFinita(q) THEN Sinal(num) ELSE 0, quadrado |-> q]

\* StandardScaler.transform of a column
Aplicar(col, sc) == [j \in DOMAIN col |-> transform(col[j], sc)]

fit_transform(col) == Aplicar(col, fit(col))

ZFinito(z) == FracFinita(z.quadrado)
ZZero == [sinal |-> 0, quadrado |-> <<0, 1>>]

----------------------------------------------------------------------------
\* transformar_dados.py
\* Of the engineered columns the model keeps RSI_14, hora_num and fechamento_futuro,
\* and var_fechamento for the rows its NaN removes; the moving averages, support and
\* resistance, pressures, retorno and volatilidade are never NaN and remove no row.

RSI_PERIODO == 14
SEGUNDOS_HORA == 3600
HORAS_DIA == 24

\* df['timestamp'].dt.hour
Hora(ts) == (ts \div SEGUNDOS_HORA) % HORAS_DIA

\* delta = df['fechamento'].diff() at row t >= 2
Delta(s, t) == s[t].fechamento - s[t - 1].fechamento

RSIRazao(s, t) ==
    IF t = 1 THEN NaN
    ELSE LET a == Max(2, t - RSI_PERIODO + 1)
             up == Soma([u \in 1..(t - a + 1) |-> Max(Delta(s, a + u - 1), 0)])
             down == Soma([u \in 1..(t - a + 1) |-> Max(0 - Delta(s, a + u - 1), 0)])
         IN  IF down = 0 THEN (IF up = 0 THEN NaN ELSE <<100, 1>>)
             ELSE Frac(100 * up, down)

\* RSI_14 at row t: rolling means of gains and losses over the last 14 rows, the NaN
\* of row 1 skipped; x / 0 is inf and gives 100, 0 / 0 is NaN
RSI(s, t) ==
    IF t = 1 THEN NaN
    ELSE LET a == Max(2, t - RSI_PERIODO + 1)
             up == Soma([u \in 1..(t - a + 1) |-> Max(Delta(s, a + u - 1), 0)])
             down == Soma([u \in 1..(t - a + 1) |-> Max(0 - Delta(s, a + u - 1), 0)])
         IN  IF down = 0 THEN (IF up = 0 THEN NaN ELSE <<100, 1>>)
             ELSE Frac(100 * up, up + down)

\* df['fechamento'].shift(-1)
Futuro(s, t) == IF t < Len(s) THEN s[t + 1].fechamento ELSE nan

\* the transformed rows of a raw series: sort, columns, dropna
transformar(linhas) ==
    LET s == sort_values(linhas)
        completa(t) == t >= 2 /\ FracFinita(RSI(s, t)) /\ Futuro(s, t) # nan
        mantidas == SelectSeq([t \in DOMAIN s |-> t], completa)
    IN  [j \in DOMAIN mantidas |->
            LET t == mantidas[j] IN
            [timestamp |-> s[t].from,
             fechamento |-> s[t].fechamento,
             volume |-> s[t].volume,
             RSI_14 |-> RSI(s, t),
             hora_num |-> Hora(s[t].from),
             fechamento_futuro |-> Futuro(s, t)]]

\* one run of transformar_dados.py on the raw CSV
Transformar ==
    /\ pc = "feito"
    /\ csv.existe
    /\ transformed' = [existe |-> TRUE, linhas |-> transformar(csv.linhas)]
    /\ pc' = "transformado"
    /\ UNCHANGED <<varsExtracao, csv, varsPreparo, par, loja>>

----------------------------------------------------------------------------
\* preparar_dados_LSTM.py
\* Feature columns of the model, one or two per normalisation policy of the code:
\*   fechamento (min-max in the window), volume (z-score in the window),
\*   RSI_14 (kept), hora_num (divided by 23).

HORA_MAX == 23

isfinite(v) == v # inf /\ v # nan

\* carregar_csv and the fixed-scale columns: rows without target are dropped, hora_num / 23
carregar_csv(linhas) ==
    LET d == SelectSeq(linhas, LAMBDA r : r.fechamento_futuro # nan)
    IN  [j \in DOMAIN d |-> [d[j] EXCEPT !.hora_num = Frac(d[j].hora_num, HORA_MAX)]]

DenominadorMax(col_min, col_max) == IF col_max > 0 THEN col_max ELSE 1

\* denom = col_max - col_min if col_max > col_min else 1.0
Denominador(col_min, col_max) == IF col_max > col_min THEN col_max - col_min ELSE 1

\* normalizar_seq: every column of one window, from the window's rows alone
normalizar_seq(seq) ==
    LET fech == Coluna(seq, "fechamento")
        vol == fit_transform(Coluna(seq, "volume"))
        col_min == Menor(fech)
        col_max == Maior(fech)
        denom == Denominador(col_min, col_max)
    IN  [j \in DOMAIN seq |->
            [fechamento |-> Frac(fech[j] - col_min, denom),
             volume |-> vol[j],
             RSI_14 |-> seq[j].RSI_14,
             hora_num |-> seq[j].hora_num]]

\* np.isfinite(seq).all() on the raw window
SeqFinita(seq) ==
    \A j \in DOMAIN seq :
        /\ isfinite(seq[j].fechamento) /\ isfinite(seq[j].volume)
        /\ FracFinita(seq[j].RSI_14) /\ FracFinita(seq[j].hora_num)

\* np.isfinite(seq_norm).all() on the normalised window
NormFinita(seq_norm) ==
    \A j \in DOMAIN seq_norm :
        /\ FracFinita(seq_norm[j].fechamento) /\ ZFinito(seq_norm[j].volume)
        /\ FracFinita(seq_norm[j].RSI_14) /\ FracFinita(seq_norm[j].hora_num)

LimiteMenosUm(d, L) == Len(d) - L - 1

\* limite = len(df) - seq_len
Limite(d, L) == Len(d) - L

CorpoComSeguinte(d, i, L) == SubSeq(d, i + 1, i + L + 1)

\* df.iloc[i:i+seq_len]
Corpo(d, i, L) == SubSeq(d, i + 1, i + L)

\* df.iloc[i+seq_len][target]
Alvo(d, i, L) == d[i + L + 1].fechamento_futuro

RECURSIVE Varrer(_, _, _, _)
\* the loop of criar_sequencias from index i on; acc = [X, y, descartadas]
Varrer(d, L, i, acc) ==
    IF i >= Limite(d, L) THEN acc
    ELSE LET seq == Corpo(d, i, L)
             target_val == Alvo(d, i, L)
         IN  IF ~SeqFinita(seq) \/ ~isfinite(target_val)
             THEN Varrer(d, L, i + 1, [acc EXCEPT !.descartadas = @ + 1])
             ELSE LET seq_norm == normalizar_seq(seq) IN
                  IF ~NormFinita(seq_norm)
                  THEN Varrer(d, L, i + 1, [acc EXCEPT !.descartadas = @ + 1])
                  ELSE Varrer(d, L, i + 1,
                              [acc EXCEPT !.X = Append(@, [inicio |-> i, seq |-> seq_norm]),
                                          !.y = Append(@, target_val)])

criar_sequencias(d, L) == Varrer(d, L, 0, [X |-> <<>>, y |-> <<>>, descartadas |-> 0])

\* split_idx = int(len(X) * (1 - test_size))
split_index(n, ts) == (n * (ts[2] - ts[1])) \div ts[2]

TesteSaltaUm(s, k) == SubSeq(s, k + 2, Len(s))

\* s[:split_idx] and s[split_idx:]
Treino(s, k) == SubSeq(s, 1, k)
Teste(s, k) == SubSeq(s, k + 1, Len(s))

AjustarAlvoTudo(alvos, k) == fit(alvos)

\* y_scaler fitted on y_train_raw
AjustarAlvo(alvos, k) == fit(Treino(alvos, k))

\* what preparar_dados saves, given the output r of criar_sequencias, the boundary k
\* and the fitted target scaler sc
Salvar(r, k, sc) ==
    [ok |-> TRUE, X |-> r.X, y |-> r.y, descartadas |-> r.descartadas, split_idx |-> k,
     preparado |->
        [existe |-> TRUE,
         X_train |-> Treino(r.X, k),
         y_train |-> Aplicar(Treino(r.y, k), sc),
         X_test |-> Teste(r.X, k),
         y_test |-> Aplicar(Teste(r.y, k), sc),
         y_scaler |-> sc]]

\* StandardScaler.fit raises on an empty training partition: nothing is saved
Falhar(r, k) ==
    [ok |-> FALSE, X |-> r.X, y |-> r.y, descartadas |-> r.descartadas, split_idx |-> k,
     preparado |-> SemArtefato]

DividirSempre(r, k) == Salvar(r, k, AjustarAlvo(r.y, k))

\* split and target scaling
Dividir(r, k) == IF k > 0 THEN Salvar(r, k, AjustarAlvo(r.y, k)) ELSE Falhar(r, k)

Sequenciar(r, ts) == Dividir(r, split_index(Len(r.X), ts))

\* preparar_dados from the transformed CSV to what it saves
Rodar(linhas, L, ts) == Sequenciar(criar_sequencias(carregar_csv(linhas), L), ts)

SeqLens == {1, 2, 3}
TestSizes == {<<15, 100>>, <<1, 2>>}

\* one call of preparar_dados
PrepararNucleo(L, ts) ==
    /\ pc = "transformado"
    /\ transformed.existe
    /\ \E r \in {Rodar(transformed.linhas, L, ts)} :
        /\ seq_len' = L
        /\ test_size' = ts
        /\ X' = r.X
        /\ y' = r.y
        /\ descartadas' = r.descartadas
        /\ split_idx' = r.split_idx
        /\ preparado' = IF r.ok THEN r.preparado ELSE preparado
        /\ pc' = IF r.ok THEN "preparado" ELSE "erro_preparo"
    /\ UNCHANGED <<varsExtracao, csv, transformed, loja>>

Preparar ==
    /\ \E L \in SeqLens, ts \in TestSizes : PrepararNucleo(L, ts)
    /\ UNCHANGED par

\* two calls of preparar_dados with the same parameters, each on its own transformed CSV
PrepararPar ==
    /\ par.existe
    /\ \E L \in SeqLens, ts \in TestSizes :
        /\ PrepararNucleo(L, ts)
        /\ par' = [par EXCEPT !.resultado = Rodar(par.linhas, L, ts)]

----------------------------------------------------------------------------
\* treinar_modelo_LSTM.py: evaluation on the latest prepared dataset

\* the targets the error metrics (MAE, RMSE, R2) are computed against: y_test as loaded
AlvosDaMetrica(prep) == prep.y_test

----------------------------------------------------------------------------
\* File names of the artifacts and resolution of the latest one

\* code points of the characters that occur in the file names
Ord(c) ==
    CASE c = "." -> 46
      [] c = "0" -> 48 [] c = "1" -> 49 [] c = "2" -> 50 [] c = "3" -> 51 [] c = "4" -> 52
      [] c = "5" -> 53 [] c = "6" -> 54 [] c = "7" -> 55 [] c = "8" -> 56 [] c = "9" -> 57
      [] c = "D" -> 68 [] c = "E" -> 69 [] c = "H" -> 72 [] c = "M" -> 77 [] c = "S" -> 83
      [] c = "T" -> 84 [] c = "U" -> 85 [] c = "X" -> 88 [] c = "_" -> 95
      [] c = "a" -> 97 [] c = "c" -> 99 [] c = "d" -> 100 [] c = "e" -> 101
      [] c = "f" -> 102 [] c = "i" -> 105 [] c = "m" -> 109 [] c = "n" -> 110
      [] c = "o" -> 111 [] c = "p" -> 112 [] c = "r" -> 114 [] c = "s" -> 115
      [] c = "t" -> 116 [] c = "v" -> 118 [] c = "y" -> 121

\* a string as the sequence of its code points
Texto(cs) == [j \in DOMAIN cs |-> Ord(cs[j])]

Digito(n) == 48 + n

RECURSIVE Decimal(_)
\* f"{n}" of a natural: decimal digits, no padding
Decimal(n) == IF n < 10 THEN <<Digito(n)>> ELSE Append(Decimal(n \div 10), Digito(n % 10))

\* strftime("%Y%m%d_%H%M%S") within one minute: the seconds field, two digits wide
\* (the fields before it are the same for every write)
strftime(t) == <<Digito((t \div 10) % 10), Digito(t % 10)>>

PAR == Texto(<<"E", "T", "H", "U", "S", "D">>)

\* f"{par}_M{timeframe//60}_{dias}d"
Chave(timeframe, dias) ==
    PAR \o Texto(<<"_", "M">>) \o Decimal(timeframe \div 60) \o Texto(<<"_">>)
        \o Decimal(dias) \o Texto(<<"d">>)

\* f"{par}_M{timeframe//60}_{dias}d.csv"
caminho_csv(timeframe, dias) == Chave(timeframe, dias) \o Texto(<<".", "c", "s", "v">>)

\* f"{PAR}_M{TIMEFRAME//60}_{DIAS}d_transformed_{ts}.csv"
transformed_fname(timeframe, dias, ts) ==
    Chave(timeframe, dias)
        \o Texto(<<"_", "t", "r", "a", "n", "s", "f", "o", "r", "m", "e", "d", "_">>)
        \o ts \o Texto(<<".", "c", "s", "v">>)

\* f"X_train_{ts}.npy"
X_train_fname(ts) ==
    Texto(<<"X", "_", "t", "r", "a", "i", "n", "_">>) \o ts \o Texto(<<".", "n", "p", "y">>)

RECURSIVE MenorTexto(_, _)
\* a < b for Python strings: code point order, a proper prefix comes first
MenorTexto(a, b) ==
    IF b = <<>> THEN FALSE
    ELSE IF a = <<>> THEN TRUE
    ELSE IF a[1] # b[1] THEN a[1] < b[1]
    ELSE MenorTexto(Tail(a), Tail(b))

\* names of the files of one kind that exist in the directories
Arquivos(tipo) ==
    {loja.gravacoes[k].nome : k \in {j \in DOMAIN loja.gravacoes : loja.gravacoes[j].tipo = tipo}}

\* sorted(glob.glob(...))[-1]: the file the next stage takes as the latest of its kind
mais_recente(nomes) == CHOOSE n \in nomes : \A m \in nomes : m = n \/ MenorTexto(m, n)

\* a file holds what the last write to its name put there; a write is identified by
\* its position in the order of writes
Conteudo(nome) ==
    CHOOSE k \in DOMAIN loja.gravacoes :
        /\ loja.gravacoes[k].nome = nome
        /\ \A j \in DOMAIN loja.gravacoes : loja.gravacoes[j].nome = nome => j <= k

TIMEFRAMES == {300, 900}
DIAS == {7, 30}

\* one write of a file
Gravar(tipo, nome) ==
    /\ Len(loja.gravacoes) < MaxGravacoes
    /\ loja' = [loja EXCEPT !.gravacoes = Append(@, [tipo |-> tipo, nome |-> nome])]
    /\ UNCHANGED <<varsExtracao, pc, csv, transformed, varsPreparo, par>>

\* extrair_dados: df.to_csv(caminho_csv)
GravarBruto ==
    \E tf \in TIMEFRAMES, d \in DIAS : Gravar("raw", caminho_csv(tf, d))

\* transformar_dados: df.to_csv(transformed_path)
GravarTransformado ==
    \E tf \in TIMEFRAMES, d \in DIAS :
        Gravar("transformed", transformed_fname(tf, d, strftime(loja.hora)))

\* preparar_dados: np.save of the arrays, named after the moment of the call
GravarPreparado == Gravar("prepared", X_train_fname(strftime(loja.hora)))

\* a second of wall-clock time passes
PassarSegundo ==
    /\ loja.hora < HoraInicial + MaxSegundos
    /\ loja' = [loja EXCEPT !.hora = @ + 1]
    /\ UNCHANGED <<varsExtracao, pc, csv, transformed, varsPreparo, par>>

InitLoja ==
    /\ ExtracaoParada
    /\ pc = "ocioso"
    /\ csv = [existe |-> FALSE, linhas |-> <<>>]
    /\ transformed = [existe |-> FALSE, linhas |-> <<>>]
    /\ PreparoParado
    /\ par = SemPar
    /\ loja = LojaVazia

NextLoja == PassarSegundo \/ GravarBruto \/ GravarTransformado \/ GravarPreparado

SpecLoja == InitLoja /\ [][NextLoja]_vars

----------------------------------------------------------------------------
\* Specifications of the later stages on bounded inputs

MaxLinhas == 4
MaxLinhasPar == 4
MaxCandles == 6

PrecosPrep == {1, 2}
VolumesPrep == {1, 2, inf}
UltimosAlvos == {2, inf, nan}
VolumesPar == {1, 2}
ClosesPipe == {11, 12, 13}
Cenario5 == <<10, 12, 11, 13, 14>>
Cenario6 == <<10, 12, 11, 13, 14, 15>>

\* a transformed CSV with the given closes and volumes: every target is the next
\* row's close, the last row's target is u
LinhasDe(c, v, u) ==
    [j \in DOMAIN c |->
        [timestamp |-> (j - 1) * TIMEFRAME,
         fechamento |-> c[j],
         volume |-> v[j],
         RSI_14 |-> <<50, 1>>,
         hora_num |-> Hora((j - 1) * TIMEFRAME),
         fechamento_futuro |-> IF j < Len(c) THEN c[j + 1] ELSE u]]

\* a raw CSV with the given closes, one bar after the other
CandlesDe(c) == [j \in DOMAIN c |-> [from |-> (j - 1) * TIMEFRAME, fechamento |-> c[j],
                                      volume |-> 1 + (j % 2)]]

\* preparar_dados on any transformed CSV of the bounded domain
InitPrep ==
    /\ ExtracaoParada
    /\ csv = [existe |-> FALSE, linhas |-> <<>>]
    /\ pc = "transformado"
    /\ PreparoParado
    /\ loja = LojaVazia
    /\ par = SemPar
    /\ \E n \in 1..MaxLinhas :
        \E c \in [1..n -> PrecosPrep], v \in [1..n -> VolumesPrep], u \in UltimosAlvos :
            transformed = [existe |-> TRUE, linhas |-> LinhasDe(c, v, u)]

NextPrep == Preparar

SpecPrep == InitPrep /\ [][NextPrep]_vars

\* two transformed CSVs that differ in one row, or in the last target alone
InitPar ==
    /\ ExtracaoParada
    /\ csv = [existe |-> FALSE, linhas |-> <<>>]
    /\ pc = "transformado"
    /\ PreparoParado
    /\ loja = LojaVazia
    /\ \E c \in [1..MaxLinhasPar -> PrecosPrep], v \in [1..MaxLinhasPar -> VolumesPar] :
        /\ transformed = [existe |-> TRUE, linhas |-> LinhasDe(c, v, 2)]
        /\ \/ \E k \in 1..MaxLinhasPar, p \in PrecosPrep, w \in VolumesPar :
                par = [existe |-> TRUE,
                       linhas |-> LinhasDe([c EXCEPT ![k] = p], [v EXCEPT ![k] = w], 2),
                       resultado |-> <<>>]
           \/ par = [existe |-> TRUE, linhas |-> LinhasDe(c, v, 1), resultado |-> <<>>]

NextPar == PrepararPar

SpecPar == InitPar /\ [][NextPar]_vars

\* transformar_dados and preparar_dados on any raw CSV of the bounded domain
InitPipe ==
    /\ ExtracaoParada
    /\ pc = "feito"
    /\ transformed = [existe |-> FALSE, linhas |-> <<>>]
    /\ PreparoParado
    /\ loja = LojaVazia
    /\ par = SemPar
    /\ \E c \in {Cenario5, Cenario6} \cup UNION {[1..n -> ClosesPipe] : n \in 4..MaxCandles} :
        csv = [existe |-> TRUE, linhas |-> CandlesDe(c)]

NextPipe == Transformar \/ Preparar

SpecPipe == InitPipe /\ [][NextPipe]_vars

----------------------------------------------------------------------------
\* main.py: one run of the pipeline script

\* line 35, from scripts.extrair_dados import extrair_dados: the module only defines
\* its functions (the fetch is under the __main__ guard), no stage runs
ImportarExtrair ==
    /\ pc = "main"
    /\ pc' = "importou_extrair"
    /\ UNCHANGED <<varsExtracao, csv, transformed, varsPreparo, par, loja>>

\* line 36, from scripts.transformar_dados import transformar_dados: the import runs
\* the body of transformar_dados.py, which is the whole transformation. Without the
\* raw CSV it raises FileNotFoundError; with it, the raw CSV on disk is transformed
\* and saved, and then the import raises ImportError because the module defines no
\* name transformar_dados. Either way main() of lines 43-80 is never entered.
ImportarTransformar ==
    /\ pc = "importou_extrair"
    /\ IF csv.existe
       THEN /\ transformed' = [existe |-> TRUE, linhas |-> transformar(csv.linhas)]
            /\ pc' = "erro_import"
       ELSE /\ transformed' = transformed
            /\ pc' = "erro_arquivo"
    /\ UNCHANGED <<varsExtracao, csv, varsPreparo, par, loja>>

\* a start of main.py: no stage of this run has acted yet; the raw CSV is absent or
\* was left by an earlier run
InitMain ==
    /\ ExtracaoParada
    /\ pc = "main"
    /\ transformed = [existe |-> FALSE, linhas |-> <<>>]
    /\ PreparoParado
    /\ loja = LojaVazia
    /\ par = SemPar
    /\ \/ csv = [existe |-> FALSE, linhas |-> <<>>]
       \/ \E c \in UNION {[1..n -> ClosesPipe] : n \in 4..MaxCandles} :
             csv = [existe |-> TRUE, linhas |-> CandlesDe(c)]

NextMain == ImportarExtrair \/ ImportarTransformar

SpecMain == InitMain /\ [][NextMain]_vars

MaxCauda == 4
Formas == {"plano", "sobe", "desce", "serra"}

\* closes of a series long enough for the RSI window to fill: RSI_PERIODO - 2 closes
\* of a fixed shape, then the closes of `cauda`
SerieLonga(forma, cauda) ==
    [j \in 1..(RSI_PERIODO - 2) |->
        CASE forma = "plano" -> 12
          [] forma = "sobe" -> j
          [] forma = "desce" -> 2 * RSI_PERIODO - j
          [] forma = "serra" -> 12 + (j % 2)] \o cauda

\* transformar_dados.py on raw series of more than RSI_PERIODO candles
InitRSI ==
    /\ ExtracaoParada
    /\ pc = "feito"
    /\ transformed = [existe |-> FALSE, linhas |-> <<>>]
    /\ PreparoParado
    /\ loja = LojaVazia
    /\ par = SemPar
    /\ \E forma \in Formas, cauda \in [1..MaxCauda -> ClosesPipe] :
        csv = [existe |-> TRUE, linhas |-> CandlesDe(SerieLonga(forma, cauda))]

NextRSI == Transformar

SpecRSI == InitRSI /\ [][NextRSI]_vars

----------------------------------------------------------------------------
\* Claims about fetch and merge (checked under Spec)

StrictAsc(s) == \A i \in 1..(Len(s) - 1) : s[i].from < s[i + 1].from

Chaves(s) == {s[i].from : i \in DOMAIN s}

\* C1: when the same timestamp is in the persisted series and in the fetched frame,
\* the merged series holds the fetched candle's values for that timestamp.
C1_IncomingWins ==
    pc = "feito" =>
        \A i \in DOMAIN antigo, j \in DOMAIN df, k \in DOMAIN csv.linhas :
            (antigo[i].from = df[j].from /\ csv.linhas[k].from = df[j].from)
                => csv.linhas[k] = df[j]

\* C2: the merged series has strictly ascending (hence unique) timestamps, and merging
\* the same fetched frame into it again leaves it unchanged.
C2_MergeIdempotent ==
    pc = "feito" =>
        /\ StrictAsc(csv.linhas)
        /\ Mesclar(csv.linhas, df) = csv.linhas
        /\ Chaves(csv.linhas) = Chaves(antigo) \cup Chaves(df)

\* a merge in which both sides overlap and each side brings a timestamp of its own
C2_Witness ==
    /\ pc = "feito"
    /\ Chaves(antigo) \cap Chaves(df) # {}
    /\ Chaves(antigo) \ Chaves(df) # {}
    /\ Chaves(df) \ Chaves(antigo) # {}

\* C3 as stated: every fetched and every persisted candle has closed by the time
\* captured at fetch start.
C3_NoOpenBars ==
    pc = "feito" =>
        /\ \A j \in DOMAIN df : df[j].from + TIMEFRAME <= inicio
        /\ \A k \in DOMAIN csv.linhas : csv.linhas[k].from + TIMEFRAME <= inicio

\* C3 amended: every fetched and every persisted candle opened at or before the time
\* captured at fetch start; no close-time filter is applied.
C3_OpenedByFetchStart ==
    pc = "feito" =>
        /\ \A j \in DOMAIN df : df[j].from <= inicio
        /\ \A k \in DOMAIN csv.linhas : csv.linhas[k].from <= inicio

\* a completed fetch of several pages that admitted the bar still forming at its start
C3_Witness ==
    /\ pc = "feito"
    /\ Len(df) > max_por_chamada
    /\ \E j \in DOMAIN df : df[j].from <= inicio /\ df[j].from + TIMEFRAME > inicio

\* the paging loop of the current run has ended
PaginacaoEncerrada == pc \in {"feito", "erro"} /\ pedidos # <<>>

SemPaginaVazia == \A k \in DOMAIN pedidos : pedidos[k].candles # <<>>

UltimaPaginaVazia == pedidos # <<>> /\ pedidos[Len(pedidos)].candles = <<>>

QtdsDosPedidos == [k \in DOMAIN pedidos |-> pedidos[k].qtd]

\* timestamps acquired by the first k page requests
Adquiridos(k) == UNION {Chaves(pedidos[j].candles) : j \in 1..k}

\* C11: when no page comes back empty, a fetch of N candles issues exactly ceil(N/max)
\* page requests, each for at most max candles and together for exactly N; with
\* N = 2500 and max = 1000 the requested counts are 1000, 1000, 500 in that order.
C11_PageRequests ==
    /\ (PaginacaoEncerrada /\ SemPaginaVazia) =>
          /\ QtdsDosPedidos = QtdsPedidas(max_por_chamada, TOTAL_CANDLES)
          /\ Len(pedidos) = (TOTAL_CANDLES + max_por_chamada - 1) \div max_por_chamada
          /\ \A k \in DOMAIN pedidos : pedidos[k].qtd <= max_por_chamada
          /\ Soma(QtdsDosPedidos) = TOTAL_CANDLES
    /\ QtdsPedidas(1000, 2500) = <<1000, 1000, 500>>

\* a completed fetch without an empty page in which the source answered short
C11_Witness ==
    /\ PaginacaoEncerrada /\ SemPaginaVazia
    /\ Len(pedidos) >= 2
    /\ \E k \in DOMAIN pedidos : Len(pedidos[k].candles) < pedidos[k].qtd

\* C16: an empty page ends the paging and the fetch completes with the candles
\* accumulated so far, also when the very first page is the empty one.
C16_EmptyPageNotFatal ==
    (PaginacaoEncerrada /\ UltimaPaginaVazia) =>
        /\ pc = "feito"
        /\ df = Montar(todos_candles)

\* C18: every page request after the first has as reference time the oldest timestamp
\* acquired so far minus one; reference times strictly decrease and no timestamp is
\* returned by two pages.
C18_BackwardPaging ==
    /\ \A k \in DOMAIN pedidos :
          k > 1 => /\ \A t \in Adquiridos(k - 1) : pedidos[k].ref < t
                   /\ pedidos[k].ref + 1 \in Adquiridos(k - 1)
                   /\ pedidos[k].ref < pedidos[k - 1].ref
    /\ \A j, k \in DOMAIN pedidos :
          j # k => Chaves(pedidos[j].candles) \cap Chaves(pedidos[k].candles) = {}

\* a fetch whose second page request brought candles older than those of the first
C18_Witness ==
    /\ Len(pedidos) >= 2
    /\ Len(pedidos[1].candles) >= 2
    /\ pedidos[2].candles # <<>>

\* C19: the paging loop ends only when the candles accumulated reach the requested
\* total or a page came back empty; a short non-empty page does not end it.
C19_StopOnlyWhenSatisfied ==
    PaginacaoEncerrada =>
        \/ Len(todos_candles) >= TOTAL_CANDLES
        \/ UltimaPaginaVazia

----------------------------------------------------------------------------
\* Claims about window building and the split

\* the frame criar_sequencias works on
Quadro == carregar_csv(transformed.linhas)
QuadroPar == carregar_csv(par.linhas)

Preparou == pc \in {"preparado", "erro_preparo"}

\* the feature columns of a row
Features(r) == [fechamento |-> r.fechamento, volume |-> r.volume, RSI_14 |-> r.RSI_14,
                hora_num |-> r.hora_num]

\* start indices of the candidate windows of a frame
Candidatas(d) == 0..(Len(d) - seq_len - 1)

BrutoFinito(d, i) ==
    /\ SeqFinita(SubSeq(d, i + 1, i + seq_len))
    /\ isfinite(d[i + seq_len + 1].fechamento_futuro)

Emitida(i) == \E m \in DOMAIN X : X[m].inicio = i

VolumeConstante(d, i) ==
    \A j, k \in (i + 1)..(i + seq_len) : d[j].volume = d[k].volume

\* C4: when two feature series agree on rows [i, i+L), the normalised window i that
\* build produces is the same in both, whatever the rows outside the window hold.
C4_WindowLocal ==
    (Preparou /\ par.existe) =>
        \A m \in DOMAIN X, n \in DOMAIN par.resultado.X :
            LET i == X[m].inicio IN
            ( /\ par.resultado.X[n].inicio = i
              /\ \A j \in (i + 1)..(i + seq_len) :
                    Features(Quadro[j]) = Features(QuadroPar[j]) )
            => X[m].seq = par.resultado.X[n].seq

\* two runs that emit the same window although a feature row outside it differs
C4_Witness ==
    /\ Preparou /\ par.existe
    /\ \E m \in DOMAIN X, n \in DOMAIN par.resultado.X :
        LET i == X[m].inicio IN
        /\ par.resultado.X[n].inicio = i
        /\ \A j \in (i + 1)..(i + seq_len) : Features(Quadro[j]) = Features(QuadroPar[j])
        /\ Features(Quadro[i + seq_len + 1]) # Features(QuadroPar[i + seq_len + 1])
        /\ \E j, k \in (i + 1)..(i + seq_len) :
              Quadro[j].volume # Quadro[k].volume /\ Quadro[j].fechamento # Quadro[k].fechamento

\* C5: the target scaler depends on the training targets alone: two runs with the same
\* training targets have the same scaler, and the test targets are transformed with it.
C5_ScalerTrainOnly ==
    (pc = "preparado" /\ par.existe /\ par.resultado.ok) =>
        /\ (Treino(y, split_idx) = Treino(par.resultado.y, par.resultado.split_idx)
              => preparado.y_scaler = par.resultado.preparado.y_scaler)
        /\ preparado.y_test = Aplicar(Teste(y, split_idx), preparado.y_scaler)
        /\ par.resultado.preparado.y_test =
              Aplicar(Teste(par.resultado.y, par.resultado.split_idx),
                      par.resultado.preparado.y_scaler)

\* two runs with the same training targets and different test targets
C5_Witness ==
    /\ pc = "preparado" /\ par.existe /\ par.resultado.ok
    /\ split_idx >= 2
    /\ Treino(y, split_idx) = Treino(par.resultado.y, par.resultado.split_idx)
    /\ Teste(y, split_idx) # Teste(par.resultado.y, par.resultado.split_idx)
    /\ \E j, k \in 1..split_idx : y[j] # y[k]

\* C6: with n rows and lookback L (n >= L) there are n - L candidate windows, each
\* emitted once or discarded and counted once: emitted + discarded = n - L.
C6_WindowCount ==
    (Preparou /\ Len(Quadro) >= seq_len) =>
        /\ Len(X) + descartadas = Len(Quadro) - seq_len
        /\ Len(y) = Len(X)
        /\ \A m \in DOMAIN X : X[m].inicio \in Candidatas(Quadro)
        /\ \A m, n \in DOMAIN X : m < n => X[m].inicio < X[n].inicio
        /\ descartadas = Cardinality({i \in Candidatas(Quadro) : ~Emitida(i)})

\* a finished build that emitted some windows and discarded others
C6_Witness == Preparou /\ Len(X) >= 2 /\ descartadas >= 1

\* C8 as stated: a window whose volume column is constant is not emitted.
C8_ConstantDiscarded ==
    Preparou =>
        \A i \in Candidatas(Quadro) : VolumeConstante(Quadro, i) => ~Emitida(i)

\* C8 amended: a constant volume column is standardised to zeros and causes no
\* discard: a window with finite raw values and target is emitted, and only windows
\* with a non-finite raw value or target are counted as discarded.
C8_ConstantEmitted ==
    Preparou =>
        /\ \A i \in Candidatas(Quadro) : BrutoFinito(Quadro, i) <=> Emitida(i)
        /\ \A m \in DOMAIN X :
              VolumeConstante(Quadro, X[m].inicio)
                  => \A j \in DOMAIN X[m].seq : X[m].seq[j].volume = ZZero
        /\ descartadas = Cardinality({i \in Candidatas(Quadro) : ~BrutoFinito(Quadro, i)})

\* an emitted window of at least two rows whose volume column is constant
C8_Witness ==
    /\ Preparou /\ seq_len >= 2
    /\ \E m \in DOMAIN X : VolumeConstante(Quadro, X[m].inicio)
    /\ \E m \in DOMAIN X : ~VolumeConstante(Quadro, X[m].inicio)

\* C10: the window list is cut at k = floor(len * (1 - test_fraction)) without
\* reordering: train = windows[0..k), test = windows[k..), and every train window
\* starts earlier than every test window.
C10_ChronologicalSplit ==
    pc = "preparado" =>
        LET k == split_idx
            n == Len(X)
        IN  /\ k * test_size[2] <= n * (test_size[2] - test_size[1])
            /\ n * (test_size[2] - test_size[1]) < (k + 1) * test_size[2]
            /\ preparado.X_train = [m \in 1..k |-> X[m]]
            /\ preparado.X_test = [m \in 1..(n - k) |-> X[k + m]]
            /\ preparado.X_train \o preparado.X_test = X
            /\ \A a \in DOMAIN preparado.X_train, b \in DOMAIN preparado.X_test :
                  Quadro[preparado.X_train[a].inicio + 1].timestamp
                      < Quadro[preparado.X_test[b].inicio + 1].timestamp

\* a split with at least two windows on one side and one on the other
C10_Witness ==
    /\ pc = "preparado"
    /\ Len(preparado.X_train) + Len(preparado.X_test) >= 3
    /\ Len(preparado.X_train) >= 1 /\ Len(preparado.X_test) >= 1

----------------------------------------------------------------------------
\* Claims about transform followed by build (checked under SpecPipe)

\* the candle series transformar_dados works on
Bruta == sort_values(csv.linhas)

Fechamentos(linhas) == [j \in DOMAIN linhas |-> linhas[j].fechamento]

\* raw closes of the body of the window that starts at feature row i
CorpoBruto(i) == [j \in 1..seq_len |-> Quadro[i + j].fechamento]

\* C7: window i holds the L consecutive closes starting at candle i and its label is
\* the close of the candle that follows the body; closes [10, 12, 11, 13, 14] with
\* L = 3 give exactly 2 windows, window 0 with body [10, 12, 11], target 13 and
\* range-normalised closes [0, 1, 1/2].
C7_NextCloseLabel ==
    Preparou =>
        /\ \A m \in DOMAIN X :
              LET i == X[m].inicio IN
              /\ i + seq_len + 1 <= Len(Bruta)
              /\ CorpoBruto(i) = [j \in 1..seq_len |-> Bruta[i + j].fechamento]
              /\ y[m] = Bruta[i + seq_len + 1].fechamento
        /\ (Fechamentos(Bruta) = Cenario5 /\ seq_len = 3) =>
              /\ Len(X) = 2
              /\ CorpoBruto(X[1].inicio) = <<10, 12, 11>>
              /\ y[1] = 13
              /\ [j \in 1..3 |-> X[1].seq[j].fechamento] = << <<0, 1>>, <<1, 1>>, <<1, 2>> >>

\* C9: in every emitted window the range-normalised column equals
\* (x - min) / (max - min), with denominator 1 when max = min: values lie in [0, 1],
\* the maximum maps to 1 and the minimum to 0 in a non-constant window, and every
\* value is 0 in a constant window.
C9_RangeNormalized ==
    Preparou =>
        \A m \in DOMAIN X :
            LET bruto == CorpoBruto(X[m].inicio)
                mn == Menor(bruto)
                mx == Maior(bruto)
            IN  \A j \in 1..seq_len :
                    LET f == X[m].seq[j].fechamento IN
                    /\ FracIgual(f, <<bruto[j] - mn, IF mx = mn THEN 1 ELSE mx - mn>>)
                    /\ FracMenorIgual(<<0, 1>>, f) /\ FracMenorIgual(f, <<1, 1>>)
                    /\ (mx > mn /\ bruto[j] = mx) => f = <<1, 1>>
                    /\ (mx > mn /\ bruto[j] = mn) => f = <<0, 1>>
                    /\ (mx = mn) => f = <<0, 1>>

\* a run that emitted a window of two distinct closes and a window of equal closes
C9_Witness ==
    /\ Preparou /\ seq_len = 2
    /\ \E m \in DOMAIN X :
          Cardinality({CorpoBruto(X[m].inicio)[j] : j \in 1..seq_len}) = 2
    /\ \E m \in DOMAIN X :
          Cardinality({CorpoBruto(X[m].inicio)[j] : j \in 1..seq_len}) = 1

----------------------------------------------------------------------------
\* Claims about what the preparation stage persists

\* a price v as a number of the persisted arrays
EmUnidadesReais(v) == [sinal |-> Sinal(v), quadrado |-> Frac(v * v, 1)]

\* C12: after a completed preparation the test targets kept for the training stage's
\* error metrics are the raw targets, in price units.
C12_RawTestTargets ==
    pc = "preparado" =>
        /\ Len(AlvosDaMetrica(preparado)) = Len(Teste(y, split_idx))
        /\ \A j \in DOMAIN AlvosDaMetrica(preparado) :
              AlvosDaMetrica(preparado)[j] = EmUnidadesReais(Teste(y, split_idx)[j])

\* C15: when no window is emitted (none exists or all were discarded) the preparation
\* ends in error and persists nothing; a persisted training set is never empty.
C15_EmptyAborts ==
    /\ (Preparou /\ X = <<>>) => (pc = "erro_preparo" /\ ~preparado.existe)
    /\ preparado.existe => (preparado.X_train # <<>> /\ preparado.y_train # <<>>)

\* a preparation whose candidate windows were all discarded
C15_Witness == pc = "erro_preparo" /\ X = <<>> /\ descartadas >= 2

----------------------------------------------------------------------------
\* Claims about the artifact files

\* the most recent write of a kind
UltimaGravacao(tipo) ==
    CHOOSE k \in DOMAIN loja.gravacoes :
        /\ loja.gravacoes[k].tipo = tipo
        /\ \A j \in DOMAIN loja.gravacoes : loja.gravacoes[j].tipo = tipo => j <= k

\* C13: every write of a raw, transformed or prepared artifact goes to a name that no
\* earlier write used, so no artifact is overwritten.
C13_NoOverwrite ==
    \A j, k \in DOMAIN loja.gravacoes :
        j # k => loja.gravacoes[j].nome # loja.gravacoes[k].nome

\* C14: the latest artifact of a kind, resolved as the lexicographic maximum of the
\* persisted names of that kind, is the one written by the most recent save of that
\* kind, also across timeframes and day counts.
C14_LatestIsMostRecent ==
    \A tipo \in {"transformed", "prepared"} :
        Arquivos(tipo) # {} => Conteudo(mais_recente(Arquivos(tipo))) = UltimaGravacao(tipo)

----------------------------------------------------------------------------
\* Claims about the transformed series

\* position in the raw series of an output row
Posicao(r) == r.timestamp \div TIMEFRAME + 1

\* the row has RSI_PERIODO deltas behind it
AquecimentoCompleto(r) == Posicao(r) >= RSI_PERIODO + 1

\* C17: every output row of transform with full RSI warm-up has 0 <= RSI_14 <= 100,
\* also when the RSI window holds no losing bar or no price change.
C17_RSIBounded ==
    transformed.existe =>
        \A j \in DOMAIN transformed.linhas :
            AquecimentoCompleto(transformed.linhas[j]) =>
                /\ FracFinita(transformed.linhas[j].RSI_14)
                /\ FracMenorIgual(<<0, 1>>, transformed.linhas[j].RSI_14)
                /\ FracMenorIgual(transformed.linhas[j].RSI_14, <<100, 1>>)

\* an output row with full warm-up and no losing bar in its RSI window
C17_Witness ==
    /\ transformed.existe
    /\ \E j \in DOMAIN transformed.linhas :
          /\ AquecimentoCompleto(transformed.linhas[j])
          /\ transformed.linhas[j].RSI_14 = <<100, 1>>

\* C20: transform returns one row for every candle but the last, in ascending time
\* order, each with the next candle's close as target.
C20_OnlyLastDropped ==
    transformed.existe =>
        /\ Len(transformed.linhas) = Len(Bruta) - 1
        /\ \A j \in DOMAIN transformed.linhas :
              j < Len(Bruta) =>
                  /\ transformed.linhas[j].timestamp = Bruta[j].from
                  /\ transformed.linhas[j].fechamento_futuro = Bruta[j + 1].fechamento

----------------------------------------------------------------------------
\* Claims about the order of the stages in a run of main.py

\* C21: in a pipeline run the stages act in the order fetch, merge, transform, build,
\* split, save, each on what the previous one persisted: the transformation acts only
\* after this run's fetch and merge wrote the raw CSV, and the preparation only after
\* this run's transformation wrote the transformed CSV.
C21_StageOrder ==
    /\ transformed.existe => (execucoes >= 1 /\ csv.existe /\ csv.linhas = Mesclar(antigo, df))
    /\ preparado.existe => transformed.existe

====
